---- MODULE Spec2Model ----
(***************************************************************************)
(* A model of crawler1.py: the timestamp-probing image crawler.            *)
(*                                                                         *)
(* Strings are sequences of one-character strings, so that str.replace,    *)
(* str.lower, the substring test `in`, str(int) and int(str) are computed  *)
(* character by character as Python computes them.  An HTTP response is a  *)
(* record [status_code, headers, content]; headers is a function from the  *)
(* names of the headers that are present to their values; content is the   *)
(* body, a record of its length in bytes and of the identity of its bytes. *)
(* A request either completes with a response or fails at network level    *)
(* (requests.RequestException): the two are separate branches of the       *)
(* action that issues the request.  Delays are in tenths of a second.      *)
(***************************************************************************)
EXTENDS Integers, Sequences, FiniteSets, TLC

VARIABLES
    \* arguments of find_first_valid_image_url / literals of __main__
    base_url, start_ts, step, max_tries, sleep_sec,
    \* locals of find_first_valid_image_url
    i, ts, test_url, consecutive_failures, ok,
    \* control: the position of the single thread of the run
    pc,
    \* try_fetch_image: its head_first argument, and the outcome of the HEAD
    \* of the probe in progress
    head_first, head,
    \* who called try_fetch_image: the search loop ("search") or a caller of
    \* the function on its own ("direct")
    caller,
    \* the value the search loop returned, and whether it has returned
    result, returned,
    \* the world: files of the destination directory, the directory itself
    files, dir_made,
    \* what __main__ printed
    printed,
    \* observation of the run (history): probes made, requests issued by
    \* the probe in progress and in total, sleeps, calls of save_image
    probes, probe_reqs, n_head, n_get, sleeps, save_calls, save_gets, last_get,
    \* the response with which the prober confirmed the URL the search returned
    confirmed,
    \* is_image_response applied to one response on its own
    cresp, cdone, cverdict

vars == <<base_url, start_ts, step, max_tries, sleep_sec,
          i, ts, test_url, consecutive_failures, ok, pc,
          head_first, head, result, returned, files, dir_made, printed,
          probes, probe_reqs, n_head, n_get, sleeps, save_calls, save_gets,
          last_get, confirmed, caller, cresp, cdone, cverdict>>

-----------------------------------------------------------------------------
(* Bounds of the model *)

\* max_tries ranges over 0..MaxTries
MaxTries == 5
\* start_ts is -MaxStart or MaxStart
MaxStart == 1
\* step is -MaxStep, 0 or MaxStep
MaxStep == 1
\* Content-Length header values are the strings of at most MaxLenCL characters
MaxLenCL == 3
\* a URL template has at most MaxPrefix characters before its placeholder (or
\* before its middle, when it has no placeholder) and at most MaxSuffix after
MaxPrefix == 2
MaxSuffix == 1

-----------------------------------------------------------------------------
(* Strings *)

Digits == <<"0", "1", "2", "3", "4", "5", "6", "7", "8", "9">>

UpperCase == <<"A", "B", "C", "D", "E", "F", "G", "H", "I", "J", "K", "L", "M",
               "N", "O", "P", "Q", "R", "S", "T", "U", "V", "W", "X", "Y", "Z">>

LowerCase == <<"a", "b", "c", "d", "e", "f", "g", "h", "i", "j", "k", "l", "m",
               "n", "o", "p", "q", "r", "s", "t", "u", "v", "w", "x", "y", "z">>

IsDigit(c) == \E k \in 1..Len(Digits) : Digits[k] = c

DigitVal(c) == (CHOOSE k \in 1..Len(Digits) : Digits[k] = c) - 1

\* str.lower, one character
LowerChar(c) ==
    IF \E k \in 1..Len(UpperCase) : UpperCase[k] = c
    THEN LowerCase[CHOOSE k \in 1..Len(UpperCase) : UpperCase[k] = c]
    ELSE c

\* str.lower
Lower(s) == [k \in 1..Len(s) |-> LowerChar(s[k])]

\* the Python test `sub in s` on strings
Contains(sub, s) ==
    \E k \in 0..(Len(s) - Len(sub)) : SubSeq(s, k + 1, k + Len(sub)) = sub

RECURSIVE StrNat(_)
StrNat(n) ==
    IF n < 10 THEN <<Digits[n + 1]>>
    ELSE StrNat(n \div 10) \o <<Digits[(n % 10) + 1]>>

\* str(n) of a Python int: its decimal string
Str(n) == IF n < 0 THEN <<"-">> \o StrNat(-n) ELSE StrNat(n)

RECURSIVE NatOfDigits(_)
NatOfDigits(s) ==
    IF s = <<>> THEN 0
    ELSE 10 * NatOfDigits(SubSeq(s, 1, Len(s) - 1)) + DigitVal(s[Len(s)])

AllDigits(s) == s # <<>> /\ \A k \in 1..Len(s) : IsDigit(s[k])

\* int(s) of a Python str over the characters the model uses (digits, a sign,
\* letters): an optional sign and then one or more decimal digits; anything
\* else raises ValueError.  [ok |-> FALSE] stands for the ValueError.
ParseInt(s) ==
    IF s # <<>> /\ s[1] \in {"-", "+"}
    THEN IF AllDigits(Tail(s))
         THEN [ok |-> TRUE,
               val |-> IF s[1] = "-" THEN 0 - NatOfDigits(Tail(s))
                       ELSE NatOfDigits(Tail(s))]
         ELSE [ok |-> FALSE, val |-> 0]
    ELSE IF AllDigits(s)
         THEN [ok |-> TRUE, val |-> NatOfDigits(s)]
         ELSE [ok |-> FALSE, val |-> 0]

\* str.replace(old, new): every non-overlapping occurrence, left to right
RECURSIVE Replace(_, _, _)
Replace(s, old, new) ==
    IF Len(s) < Len(old) THEN s
    ELSE IF SubSeq(s, 1, Len(old)) = old
         THEN new \o Replace(SubSeq(s, Len(old) + 1, Len(s)), old, new)
         ELSE <<Head(s)>> \o Replace(Tail(s), old, new)

\* all strings over alphabet A of length at most n
RECURSIVE StringsUpTo(_, _)
StringsUpTo(A, n) ==
    IF n = 0 THEN {<<>>}
    ELSE LET shorter == StringsUpTo(A, n - 1)
         IN  shorter \cup {Append(s, c) : s \in shorter, c \in A}

-----------------------------------------------------------------------------
(* replace_timestamp_in_url *)

Placeholder == <<"{", "t", "s", "}">>

\* the token replaced is "ts", without its braces
replace_timestamp_in_url_Mut(url, new_ts) ==
    Replace(url, <<"t", "s">>, Str(new_ts))

replace_timestamp_in_url(url, new_ts) == Replace(url, Placeholder, Str(new_ts))

-----------------------------------------------------------------------------
(* is_image_response *)

\* the lowest acceptable size in bytes
MinSize == 128

\* dict.get(name, default) on the headers of a response
HeaderGet(headers, name, default) ==
    IF name \in DOMAIN headers THEN headers[name] ELSE default

\* truth value of headers.get(name): the header is present and not empty
HeaderTruthy(headers, name) ==
    name \in DOMAIN headers /\ headers[name] # <<>>

\* every 2xx status is taken
StatusOkMut(resp) == resp.status_code \in 200..299

\* line 22
StatusOk(resp) == resp.status_code = 200

\* the comparison is case-sensitive
ContentTypeOkMut(resp) ==
    LET ctype == HeaderGet(resp.headers, "Content-Type", <<>>)
    IN  \/ Contains(<<"i", "m", "a", "g", "e">>, ctype)
        \/ Contains(<<"o", "c", "t", "e", "t", "-",
                      "s", "t", "r", "e", "a", "m">>, ctype)

\* lines 24-28
ContentTypeOk(resp) ==
    LET ctype == HeaderGet(resp.headers, "Content-Type", <<>>)
    IN  \/ Contains(<<"i", "m", "a", "g", "e">>, Lower(ctype))
        \/ Contains(<<"o", "c", "t", "e", "t", "-",
                      "s", "t", "r", "e", "a", "m">>, Lower(ctype))

\* lines 30-38: TRUE when the size check does not reject the response
SizeOk(resp) ==
    IF HeaderTruthy(resp.headers, "Content-Length")
    THEN LET n == ParseInt(resp.headers["Content-Length"])
         IN  IF n.ok THEN ~(n.val < MinSize)
             ELSE TRUE                      \* except ValueError: pass
    ELSE ~(resp.content.len < MinSize)

is_image_response(resp) ==
    IF ~StatusOk(resp) THEN FALSE
    ELSE IF ~ContentTypeOk(resp) THEN FALSE
    ELSE IF ~SizeOk(resp) THEN FALSE
    ELSE TRUE

-----------------------------------------------------------------------------
(* The responses a server can give *)

NoHeader == {}

\* the header mapping with Content-Type ct and Content-Length cl, each a set
\* holding the value of the header, or empty when the header is absent
Headers(ct, cl) ==
    [n \in ({"Content-Type" : v \in ct} \cup {"Content-Length" : v \in cl}) |->
        IF n = "Content-Type" THEN CHOOSE v \in ct : TRUE
        ELSE CHOOSE v \in cl : TRUE]

Response(status, ct, cl, len, data) ==
    [status_code |-> status, headers |-> Headers(ct, cl),
     content |-> [len |-> len, data |-> data]]

ImagePng == <<"i", "m", "a", "g", "e", "/", "p", "n", "g">>
ImagePngUpper == <<"I", "M", "A", "G", "E", "/", "P", "N", "G">>
ImageJpegMixed == <<"I", "m", "a", "g", "e", "/", "J", "p", "e", "g">>
OctetStream == <<"a", "p", "p", "l", "i", "c", "a", "t", "i", "o", "n", "/",
                 "o", "c", "t", "e", "t", "-", "s", "t", "r", "e", "a", "m">>
OctetStreamUpper == <<"A", "P", "P", "L", "I", "C", "A", "T", "I", "O", "N", "/",
                      "O", "C", "T", "E", "T", "-", "S", "T", "R", "E", "A", "M">>
TextHtml == <<"t", "e", "x", "t", "/", "h", "t", "m", "l">>
Imag == <<"i", "m", "a", "g">>

ContentTypes ==
    {ImagePng, ImagePngUpper, ImageJpegMixed, OctetStream, OctetStreamUpper,
     TextHtml, Imag, <<>>}

ContentLengthChars == {"1", "2", "8", "x", "-"}

ContentLengths ==
    StringsUpTo(ContentLengthChars, MaxLenCL) \cup {<<"5", "0">>, <<"5", "0", "0">>}

BodyLengths == {0, 127, 128, 200}

ClassifierStatuses == {200, 204, 404}

\* the responses is_image_response is applied to on its own
AllResponses ==
    {Response(st, ct, cl, len, "a") :
        st \in ClassifierStatuses,
        ct \in {NoHeader} \cup {{v} : v \in ContentTypes},
        cl \in {NoHeader} \cup {{v} : v \in ContentLengths},
        len \in BodyLengths}

\* the responses the server of a run answers a GET with
GoodImage == Response(200, {ImagePng}, {<<"5", "0", "0">>}, 200, "a")
OtherImage == Response(200, {OctetStream}, NoHeader, 200, "b")
NotFound == Response(404, {TextHtml}, NoHeader, 127, "c")
EmptyImage == Response(200, {ImagePng}, NoHeader, 0, "d")
BadLengthImage == Response(200, {ImagePng}, {<<"x">>}, 0, "d")

ServerResponses == {GoodImage, OtherImage, NotFound, EmptyImage, BadLengthImage}

\* the status codes the server of a run answers a HEAD with
HeadStatuses == {200, 304, 404, 405, 500}

\* requests.Response.ok: raise_for_status() raises for 400 <= status < 600
RespOk(status) == ~(400 <= status /\ status < 600)

-----------------------------------------------------------------------------
(* The inputs of a run *)

Slash == "/"

\* "a/{ts}/b"
TemplateOnce == <<"a", Slash, "{", "t", "s", "}", Slash, "b">>
\* "a/b": no placeholder
TemplateNone == <<"a", Slash, "b">>
\* "{ts}/": no last path segment
TemplateNoName == <<"{", "t", "s", "}", Slash>>
Templates == {TemplateOnce, TemplateNone, TemplateNoName}

\* the characters of the templates of TemplateUniverse
UrlChars == {"{", "}", "a"}

\* templates with the placeholder once, or without it
TemplateUniverse ==
    {pre \o mid \o post :
        pre \in StringsUpTo(UrlChars, MaxPrefix),
        mid \in {Placeholder, <<>>},
        post \in StringsUpTo(UrlChars, MaxSuffix)}

\* base delays, in tenths of a second: 0 s, 0.1 s, 2.5 s
SleepSecs == {0, 1, 25}

\* the values time.time() may have when save_image names a file
Clock == {7}

None == <<>>

NoResponse == Response(0, NoHeader, NoHeader, 0, "none")

\* what the last GET of a probe, or the GET of save_image, came to
NoGet == [kind |-> "none", resp |-> NoResponse]
FailedGet == [kind |-> "exc", resp |-> NoResponse]
CompletedGet(r) == [kind |-> "resp", resp |-> r]

NoFiles == [n \in {} |-> NoResponse.content]

OldContent == [len |-> 300, data |-> "old"]

\* the destination directory before the run: empty, or holding a file "b"
InitialFiles == {NoFiles, [n \in {<<"b">>} |-> OldContent]}

-----------------------------------------------------------------------------
(* find_first_valid_image_url *)

\* the step is ignored: every candidate is one later than the one before
CandidateTsMut(k) == start_ts + k

\* line 117
CandidateTs(k) == start_ts + k * step

\* one iteration too many
InRangeMut(k) == k <= max_tries

\* the loop never leaves the range
InRangeForever(k) == k >= 0

\* line 116: the test of `for i in range(max_tries)`
InRange(k) == k < max_tries

BackoffEvery == 50
BackoffFactor == 10
\* 2.0 seconds, in tenths of a second
BackoffCap == 20

Min(a, b) == IF a < b THEN a ELSE b

\* the backoff is never taken
DelayMut(failures) == sleep_sec

\* lines 130-133: the delay slept after the failures-th failure
Delay(failures) ==
    IF failures % BackoffEvery = 0
    THEN Min(BackoffCap, sleep_sec * BackoffFactor)
    ELSE sleep_sec

\* lines 116-123: the head of the loop, up to the call of try_fetch_image;
\* line 135 when the range is exhausted
LoopStep ==
    /\ pc = "loop"
    /\ IF InRange(i)
       THEN /\ ts' = CandidateTs(i)
            /\ test_url' = replace_timestamp_in_url(base_url, CandidateTs(i))
            /\ pc' = IF head_first THEN "head" ELSE "get"
            /\ UNCHANGED <<result, returned>>
       ELSE /\ result' = None
            /\ returned' = TRUE
            /\ pc' = "main"
            /\ UNCHANGED <<ts, test_url>>
    /\ UNCHANGED <<base_url, start_ts, step, max_tries, sleep_sec, i,
                   consecutive_failures, ok, head_first, head, probe_reqs,
                   last_get, files, dir_made,
                   printed, probes, n_head, n_get, sleeps, save_calls,
                   save_gets, confirmed, caller,
                   cresp, cdone, cverdict>>

\* lines 124-133: what the loop does with the value try_fetch_image returned.
\* The observation of a probe ends with the call; of the probe that succeeded
\* the response that confirmed the URL is kept.
AfterProbe ==
    /\ pc = "probed"
    /\ caller = "search"
    /\ probes' = Append(probes, [i |-> i, ts |-> ts, url |-> test_url, ok |-> ok])
    /\ head' = "none"
    /\ probe_reqs' = <<>>
    /\ IF ok
       THEN /\ result' = <<test_url, ts>>
            /\ returned' = TRUE
            /\ pc' = "main"
            /\ confirmed' = last_get.resp
            /\ UNCHANGED <<i, consecutive_failures, sleeps, last_get>>
       ELSE /\ consecutive_failures' = consecutive_failures + 1
            /\ sleeps' = Append(sleeps, Delay(consecutive_failures + 1))
            /\ i' = i + 1
            /\ pc' = "loop"
            /\ last_get' = NoGet
            /\ UNCHANGED <<result, returned, confirmed>>
    /\ UNCHANGED <<base_url, start_ts, step, max_tries, sleep_sec, ts, test_url,
                   ok, head_first, files, dir_made, printed, n_head, n_get,
                   save_calls, save_gets, caller, cresp, cdone, cverdict>>

-----------------------------------------------------------------------------
(* try_fetch_image *)

\* lines 61-67: where a completed HEAD with this status leads.  405 and every
\* status that is not ok leave the `if` and reach the GET of line 74.
AfterHead(status) ==
    IF status = 405 THEN "get"
    ELSE IF RespOk(status) THEN "get_after_head"
    ELSE "get"

\* lines 61-67: the outcome of the HEAD as the prober sees it
HeadKind(status) ==
    IF status = 405 THEN "405"
    ELSE IF RespOk(status) THEN "ok"
    ELSE "bad"

\* lines 68-70: a RequestException raised inside the try of lines 59-67,
\* by the HEAD or by the GET of line 66, is caught: control reaches line 73
OnHeadBranchFailure == pc' = "get"

\* the GET is retried when it fails
OnDirectGetFailureRetry ==
    /\ ok' = ok
    /\ pc' = "get"

\* the RequestException of the GET of line 74 is not caught
OnDirectGetFailureMut ==
    /\ ok' = ok
    /\ pc' = "crashed"

\* lines 76-77: a RequestException of the GET of line 74 is caught
OnDirectGetFailure ==
    /\ ok' = FALSE
    /\ pc' = "probed"

\* the status of the response is returned, not its classification
ReturnClassifiedMut(r) ==
    /\ ok' = RespOk(r.status_code)
    /\ pc' = "probed"

\* lines 67 and 75: return is_image_response(resp)
ReturnClassified(r) ==
    /\ ok' = is_image_response(r)
    /\ pc' = "probed"

\* lines 58-60: the HEAD request and its outcome
HeadRequest ==
    /\ pc = "head"
    /\ n_head' = n_head + 1
    /\ probe_reqs' = Append(probe_reqs, "HEAD")
    /\ \/ /\ head' = "exc"
          /\ OnHeadBranchFailure
       \/ \E st \in HeadStatuses :
             /\ head' = HeadKind(st)
             /\ pc' = AfterHead(st)
    /\ UNCHANGED <<base_url, start_ts, step, max_tries, sleep_sec, i, ts,
                   test_url, consecutive_failures, ok, head_first, result,
                   returned, files, dir_made, printed, probes, n_get, sleeps,
                   save_calls, save_gets, last_get, confirmed, caller,
                   cresp, cdone, cverdict>>

\* lines 66-67: the GET that follows an ok HEAD
GetAfterHead ==
    /\ pc = "get_after_head"
    /\ n_get' = n_get + 1
    /\ probe_reqs' = Append(probe_reqs, "GET")
    /\ \/ /\ last_get' = FailedGet
          /\ OnHeadBranchFailure
          /\ UNCHANGED ok
       \/ \E r \in ServerResponses :
             /\ last_get' = CompletedGet(r)
             /\ ReturnClassified(r)
    /\ UNCHANGED <<base_url, start_ts, step, max_tries, sleep_sec, i, ts,
                   test_url, consecutive_failures, head_first, head, result,
                   returned, files, dir_made, printed, probes, n_head, sleeps,
                   save_calls, save_gets, confirmed, caller,
                   cresp, cdone, cverdict>>

\* lines 73-77: the direct GET
DirectGet ==
    /\ pc = "get"
    /\ n_get' = n_get + 1
    /\ probe_reqs' = Append(probe_reqs, "GET")
    /\ \/ /\ last_get' = FailedGet
          /\ OnDirectGetFailure
       \/ \E r \in ServerResponses :
             /\ last_get' = CompletedGet(r)
             /\ ReturnClassified(r)
    /\ UNCHANGED <<base_url, start_ts, step, max_tries, sleep_sec, i, ts,
                   test_url, consecutive_failures, head_first, head, result,
                   returned, files, dir_made, printed, probes, n_head, sleeps,
                   save_calls, save_gets, confirmed, caller,
                   cresp, cdone, cverdict>>

-----------------------------------------------------------------------------
(* save_image *)

\* the index of the first "?" of url, or Len(url) + 1
QueryStart(url) ==
    IF \E k \in 1..Len(url) : url[k] = "?"
    THEN CHOOSE k \in 1..Len(url) :
            url[k] = "?" /\ \A j \in 1..(k - 1) : url[j] # "?"
    ELSE Len(url) + 1

\* urlparse(url).path of a URL without scheme, host or fragment
UrlPath(url) == SubSeq(url, 1, QueryStart(url) - 1)

\* os.path.basename: what follows the last "/"
BaseName(path) ==
    IF \E k \in 1..Len(path) : path[k] = Slash
    THEN LET last == CHOOSE k \in 1..Len(path) :
                        path[k] = Slash /\ \A j \in (k + 1)..Len(path) : path[j] # Slash
         IN  SubSeq(path, last + 1, Len(path))
    ELSE path

\* lines 94-96
FileName(url, now) ==
    IF BaseName(UrlPath(url)) # <<>> THEN BaseName(UrlPath(url))
    ELSE <<"i", "m", "a", "g", "e", "_">> \o Str(now) \o <<".", "b", "i", "n">>

\* lines 97-99: open(save_path, "wb") and write
WriteFile(fs, name, content) ==
    [n \in DOMAIN fs \cup {name} |-> IF n = name THEN content ELSE fs[n]]

\* only the status is tested
RejectsMut(r) == r.status_code # 200

\* lines 91-92: the test that raises RuntimeError
Rejects(r) == ~is_image_response(r)

\* the bytes the prober fetched are written, not those of this request
SavedBodyMut(r) == confirmed.content

\* line 99: f.write(resp.content)
SavedBody(r) == r.content

\* the exception of save_image is not caught by __main__
OnDownloadErrorMut ==
    /\ printed' = printed
    /\ pc' = "crashed"

\* lines 151-152: __main__ catches what save_image raised (the
\* RequestException of line 90 or the RuntimeError of line 92), prints it, and
\* the run ends
OnDownloadError ==
    /\ printed' = Append(printed, "error")
    /\ pc' = "done"

\* lines 90-100, with the handlers of lines 148-152 of the caller: the GET of
\* save_image and what follows it
SaveGet ==
    /\ pc = "save"
    /\ save_gets' = save_gets + 1
    /\ \/ /\ last_get' = FailedGet
          /\ OnDownloadError
          /\ UNCHANGED files
       \/ \E r \in ServerResponses :
             /\ last_get' = CompletedGet(r)
             /\ IF Rejects(r)
                THEN /\ OnDownloadError
                     /\ UNCHANGED files
                ELSE \E now \in Clock :
                        /\ files' = WriteFile(files, FileName(save_calls[Len(save_calls)], now),
                                              SavedBody(r))
                        /\ printed' = Append(printed, "saved")
                        /\ pc' = "done"
    /\ UNCHANGED <<base_url, start_ts, step, max_tries, sleep_sec, i, ts,
                   test_url, consecutive_failures, ok, head_first, head, result,
                   returned, dir_made, probes, probe_reqs, n_head, n_get,
                   sleeps, save_calls, confirmed, caller, cresp, cdone, cverdict>>

-----------------------------------------------------------------------------
(* __main__ *)

\* the template is downloaded, not the confirmed URL
SaveArgMut(res) == base_url

\* lines 146 and 149: url, ts = result; save_image(url, ...)
SaveArg(res) == res[1]

\* lines 143-149 and 84: the branch on the result; on a result, the call of
\* save_image up to its request (os.makedirs included)
Main ==
    /\ pc = "main"
    /\ IF result = None
       THEN /\ printed' = Append(printed, "notfound")
            /\ pc' = "done"
            /\ UNCHANGED <<save_calls, dir_made, last_get>>
       ELSE /\ printed' = Append(printed, "found")
            /\ save_calls' = Append(save_calls, SaveArg(result))
            /\ dir_made' = TRUE
            /\ last_get' = NoGet
            /\ pc' = "save"
    /\ UNCHANGED <<base_url, start_ts, step, max_tries, sleep_sec, i, ts,
                   test_url, consecutive_failures, ok, head_first, head, result,
                   returned, files, probes, probe_reqs, n_head, n_get, sleeps,
                   save_gets, confirmed, caller,
                   cresp, cdone, cverdict>>

-----------------------------------------------------------------------------
(* The run of the program *)

IdleClassifier ==
    /\ cresp = NoResponse
    /\ cdone = TRUE
    /\ cverdict = FALSE

Init ==
    /\ base_url \in Templates
    /\ start_ts \in {0 - MaxStart, MaxStart}
    /\ step \in {0 - MaxStep, 0, MaxStep}
    /\ max_tries \in 0..MaxTries
    /\ sleep_sec \in SleepSecs
    /\ i = 0
    /\ ts = 0
    /\ test_url = <<>>
    /\ consecutive_failures = 0
    /\ ok = FALSE
    /\ pc = "loop"
    /\ head_first = TRUE
    /\ head = "none"
    /\ result = None
    /\ returned = FALSE
    /\ files \in InitialFiles
    /\ dir_made = FALSE
    /\ printed = <<>>
    /\ probes = <<>>
    /\ probe_reqs = <<>>
    /\ n_head = 0
    /\ n_get = 0
    /\ sleeps = <<>>
    /\ save_calls = <<>>
    /\ save_gets = 0
    /\ last_get = NoGet
    /\ confirmed = NoResponse
    /\ caller = "search"
    /\ IdleClassifier

Next ==
    \/ LoopStep
    \/ HeadRequest
    \/ GetAfterHead
    \/ DirectGet
    \/ AfterProbe
    \/ Main
    \/ SaveGet

Spec == Init /\ [][Next]_vars

\* The program is one thread that runs to completion: every request returns
\* or fails within its timeout and every sleep ends, so a step that is
\* possible is eventually taken.
FairSpec == Spec /\ WF_vars(Next)

-----------------------------------------------------------------------------
(* is_image_response on its own, applied to every response of AllResponses *)

InitClassify ==
    /\ base_url = TemplateNone
    /\ start_ts = 0
    /\ step = 0
    /\ max_tries = 0
    /\ sleep_sec = 0
    /\ i = 0
    /\ ts = 0
    /\ test_url = <<>>
    /\ consecutive_failures = 0
    /\ ok = FALSE
    /\ pc = "classify"
    /\ head_first = TRUE
    /\ head = "none"
    /\ result = None
    /\ returned = FALSE
    /\ files = NoFiles
    /\ dir_made = FALSE
    /\ printed = <<>>
    /\ probes = <<>>
    /\ probe_reqs = <<>>
    /\ n_head = 0
    /\ n_get = 0
    /\ sleeps = <<>>
    /\ save_calls = <<>>
    /\ save_gets = 0
    /\ last_get = NoGet
    /\ confirmed = NoResponse
    /\ caller = "search"
    /\ cresp \in AllResponses
    /\ cdone = FALSE
    /\ cverdict = FALSE

Classify ==
    /\ pc = "classify"
    /\ ~cdone
    /\ cverdict' = is_image_response(cresp)
    /\ cdone' = TRUE
    /\ UNCHANGED <<base_url, start_ts, step, max_tries, sleep_sec, i, ts,
                   test_url, consecutive_failures, ok, pc, head_first, head,
                   result, returned, files, dir_made, printed, probes,
                   probe_reqs, n_head, n_get, sleeps, save_calls, save_gets,
                   last_get, confirmed, caller,
                   cresp>>

NextClassify == Classify

SpecClassify == InitClassify /\ [][NextClassify]_vars

-----------------------------------------------------------------------------
(* Properties of the search loop *)

Last(seq) == seq[Len(seq)]

SomeProbeOk == \E j \in 1..Len(probes) : probes[j].ok

\* C1: the probes made so far are those of the indices 0, 1, 2, ... in that
\* order, each made once, on the timestamps start, start + step,
\* start + 2*step, ... and their URLs; every probe but the last failed; and
\* once a probe succeeds the search has returned that probe's (url, ts), so
\* that no later index is ever probed.
C1_GenerationOrder ==
    /\ \A j \in 1..Len(probes) :
          /\ probes[j].i = j - 1
          /\ probes[j].ts = start_ts + (j - 1) * step
          /\ probes[j].url =
                Replace(base_url, Placeholder, Str(start_ts + (j - 1) * step))
          /\ (j < Len(probes) => ~probes[j].ok)
    /\ n_head = Len(probes) + (IF pc \in {"get_after_head", "get", "probed"}
                               THEN 1 ELSE 0)
    /\ (pc = "probed" => i = Len(probes))
    /\ (SomeProbeOk =>
          /\ returned
          /\ Len(probes) <= max_tries
          /\ result = <<Last(probes).url, Last(probes).ts>>
          /\ result[2] = start_ts + (Len(probes) - 1) * step)

\* the candidate of index 3 is the first confirmed, with index 4 in the budget
C1_Witness ==
    /\ pc = "done"
    /\ Len(probes) = 4
    /\ Last(probes).ok
    /\ max_tries > 4
    /\ step < 0
    /\ result = <<Last(probes).url, start_ts + 3 * step>>

\* C2: with max_tries = 0 no probe request, HEAD or GET, is ever issued, the
\* first step of the search is its return, and it returns None.
C2_ZeroTries ==
    max_tries = 0 =>
        /\ n_head = 0
        /\ n_get = 0
        /\ probes = <<>>
        /\ (pc = "loop" \/ returned)
        /\ (returned => result = None)

C2_Witness == max_tries = 0 /\ returned /\ pc = "main"

C3_Budget ==
    /\ n_head <= max_tries
    /\ Len(probes) <= max_tries
    /\ (returned =>
          (result = None <=>
             /\ Len(probes) = max_tries
             /\ \A j \in 1..Len(probes) : ~probes[j].ok))

\* C3: the search returns in every run; the prober is invoked at most
\* max_tries times; and the value returned is None exactly when max_tries
\* probes were made and every one of them failed.
C3_Terminates == (<>returned) /\ []C3_Budget

\* the budget is exhausted: every one of three or more probes failed
C3_Witness ==
    /\ returned
    /\ result = None
    /\ max_tries >= 3
    /\ Len(probes) = max_tries

C4_State ==
    /\ Cardinality({j \in 1..Len(probes) : probes[j].ok}) <= 1
    /\ Len(save_calls) <= 1
    /\ save_gets <= Len(save_calls)
    /\ (save_calls # <<>> =>
          /\ returned
          /\ result # None
          /\ probes # <<>>
          /\ Last(probes).ok
          /\ save_calls[1] = Last(probes).url
          /\ save_calls[1] = result[1])

C4_Step ==
    returned =>
        /\ returned'
        /\ result' = result
        /\ probes' = probes
        /\ n_head' = n_head
        /\ n_get' = n_get

\* C4: at most one probe succeeds in a run; once the search has returned its
\* result stays and no probe request is issued; save_image is called at most
\* once, only after the search returned a result, and on the URL of the
\* probe that succeeded.
C4_OneResultOneDownload == []C4_State /\ [][C4_Step]_vars

C4_Witness ==
    /\ pc = "done"
    /\ Len(save_calls) = 1
    /\ save_gets = 1
    /\ base_url = TemplateOnce

-----------------------------------------------------------------------------
(* Properties of the prober *)

GetsOfProbe == Cardinality({k \in 1..Len(probe_reqs) : probe_reqs[k] = "GET"})

\* C5: in a probe whose HEAD completed with an ok status, one GET is issued
\* and the probe returns on it: the GET of step 2 (line 74) is never reached.
C5_NoFallThroughAfterOkHead ==
    head = "ok" => (pc # "get" /\ GetsOfProbe <= 1)

\* C6: no network failure escapes try_fetch_image; a probe whose last request
\* failed at network level returns false, and the search then counts a
\* failure and moves to the next index.
C6_State ==
    /\ pc # "crashed"
    /\ (pc = "probed" /\ last_get = FailedGet => ok = FALSE)

C6_Step ==
    (pc = "probed" /\ last_get = FailedGet) =>
        /\ pc' = "loop"
        /\ i' = i + 1
        /\ consecutive_failures' = consecutive_failures + 1
        /\ ~returned'

C6_FailuresSwallowed == []C6_State /\ [][C6_Step]_vars

\* HEAD ok, the GET after it failed, and the GET of step 2 failed too
C6_Witness ==
    /\ pc = "probed"
    /\ last_get = FailedGet
    /\ probe_reqs = <<"HEAD", "GET", "GET">>
    /\ ~ok

-----------------------------------------------------------------------------
(* Properties of the classifier *)

\* C7: a response whose status is not 200 is classified false, whatever its
\* headers and body.
C7_Not200IsFalse ==
    (cdone /\ cresp.status_code # 200) => cverdict = FALSE

\* a 204 with an image content type and a sufficient Content-Length
C7_Witness ==
    /\ cdone
    /\ cresp = Response(204, {ImagePng}, {<<"1", "2", "8">>}, 200, "a")
    /\ ~cverdict

HasHeader(resp, name) == name \in DOMAIN resp.headers

\* the size rule as stated: Content-Length when it is present and an integer,
\* the length of the body otherwise
StatedSizeReject(resp) ==
    IF HasHeader(resp, "Content-Length")
       /\ ParseInt(resp.headers["Content-Length"]).ok
    THEN ParseInt(resp.headers["Content-Length"]).val < 128
    ELSE resp.content.len < 128

\* C8: a response with status 200 and an accepted Content-Type is rejected
\* exactly when Content-Length, present and an integer, is below 128, or,
\* Content-Length being absent or not an integer, the body is shorter than
\* 128 bytes.
C8_SizeRule ==
    (cdone /\ cresp.status_code = 200 /\ ContentTypeOk(cresp)) =>
        (cverdict <=> ~StatedSizeReject(cresp))

\* the content types of the model that contain "image" or "octet-stream"
\* when case is ignored
AcceptedContentTypes ==
    {ImagePng, ImagePngUpper, ImageJpegMixed, OctetStream, OctetStreamUpper}

\* C9: a response with status 200 that the size check lets through is
\* classified true exactly when it has a Content-Type that, case ignored,
\* contains "image" or "octet-stream"; in particular
\* (200, "image/png", Content-Length "500") and
\* (200, "application/octet-stream", no Content-Length, 200 bytes) are true.
C9_ContentTypeRule ==
    cdone =>
        /\ (cresp.status_code = 200 /\ SizeOk(cresp)) =>
              (cverdict <=>
                 /\ HasHeader(cresp, "Content-Type")
                 /\ cresp.headers["Content-Type"] \in AcceptedContentTypes)
        /\ \A len \in BodyLengths :
              cresp = Response(200, {ImagePng}, {<<"5", "0", "0">>}, len, "a")
                 => cverdict
        /\ cresp = Response(200, {OctetStream}, NoHeader, 200, "a") => cverdict

\* an upper-case octet-stream type with no Content-Length and 200 bytes
C9_Witness ==
    /\ cdone
    /\ cresp = Response(200, {OctetStreamUpper}, NoHeader, 200, "a")
    /\ cverdict

-----------------------------------------------------------------------------
(* Properties of the downloader *)

C10_Step ==
    /\ (pc # "save" => files' = files)
    /\ (pc = "save" =>
          /\ save_gets' = save_gets + 1
          /\ (last_get'.kind = "exc" \/ ~is_image_response(last_get'.resp) =>
                /\ files' = files
                /\ printed' = Append(printed, "error"))
          /\ (files' # files =>
                /\ last_get'.kind = "resp"
                /\ is_image_response(last_get'.resp)))

\* C10: when the GET of save_image fails at network level or its response is
\* not a usable image, save_image ends in an error and the files of the
\* destination directory are as they were; a file is written only with a
\* response that is_image_response accepted.
C10_NoFileOnFailedDownload == [][C10_Step]_vars

\* the re-fetch came back 404, with a file "b" already in the directory
C10_Witness ==
    /\ pc = "done"
    /\ save_gets = 1
    /\ last_get = CompletedGet(NotFound)
    /\ Last(printed) = "error"
    /\ files = [n \in {<<"b">>} |-> OldContent]
    /\ FileName(save_calls[1], 7) = <<"b">>

-----------------------------------------------------------------------------
(* Properties of the entry point *)

DownloadFailed ==
    last_get.kind = "exc" \/ (last_get.kind = "resp" /\ ~is_image_response(last_get.resp))

C11_State ==
    /\ pc # "crashed"
    /\ save_gets <= 1
    /\ (pc = "done" /\ result = None =>
          /\ printed = <<"notfound">>
          /\ save_calls = <<>>
          /\ save_gets = 0)
    /\ (pc = "done" /\ result # None =>
          /\ Len(save_calls) = 1
          /\ save_gets = 1
          /\ (DownloadFailed => printed = <<"found", "error">>))

C11_Step ==
    pc = "save" =>
        /\ save_gets' = 1
        /\ (last_get'.kind = "exc" \/ ~is_image_response(last_get'.resp) =>
              /\ pc' = "done"
              /\ files' = files
              /\ printed' = <<"found", "error">>)

\* C11: a download that fails, by a network failure or by a response that is
\* not a usable image, is caught and reported by the entry point, which then
\* ends normally with the files as they were; the download is requested once
\* and never again; a search that found nothing is reported as such and no
\* download is attempted.
C11_DownloadFailureReported == []C11_State /\ [][C11_Step]_vars

\* the GET of save_image failed at network level and the run ended
C11_Witness ==
    /\ pc = "done"
    /\ last_get = FailedGet
    /\ save_gets = 1
    /\ printed = <<"found", "error">>

-----------------------------------------------------------------------------
(* Further properties of the prober *)

-----------------------------------------------------------------------------
(* A long search: a budget of one try more than the backoff period, so that
   the failure that triggers the backoff and the one after it both happen *)

InitPacing ==
    /\ base_url = TemplateOnce
    /\ start_ts = MaxStart
    /\ step = MaxStep
    /\ max_tries = BackoffEvery + 1
    /\ sleep_sec \in SleepSecs
    /\ i = 0
    /\ ts = 0
    /\ test_url = <<>>
    /\ consecutive_failures = 0
    /\ ok = FALSE
    /\ pc = "loop"
    /\ head_first = TRUE
    /\ head = "none"
    /\ result = None
    /\ returned = FALSE
    /\ files = NoFiles
    /\ dir_made = FALSE
    /\ printed = <<>>
    /\ probes = <<>>
    /\ probe_reqs = <<>>
    /\ n_head = 0
    /\ n_get = 0
    /\ sleeps = <<>>
    /\ save_calls = <<>>
    /\ save_gets = 0
    /\ last_get = NoGet
    /\ confirmed = NoResponse
    /\ caller = "search"
    /\ IdleClassifier

SpecPacing == InitPacing /\ [][Next]_vars

-----------------------------------------------------------------------------
(* Properties of the pacing *)

FailedProbes == {j \in 1..Len(probes) : ~probes[j].ok}

\* C13: one sleep follows each failed attempt, the last of the budget
\* included, and none follows the successful one; while the loop runs the
\* failure counter is the number of attempts made; and the n-th failure
\* sleeps min(2.0 s, 10 * sleep_sec) when n is a multiple of 50 and sleep_sec
\* otherwise.
C13_Pacing ==
    /\ Len(sleeps) = Cardinality(FailedProbes)
    /\ Len(sleeps) = consecutive_failures
    /\ (~returned => consecutive_failures = Len(probes))
    /\ (returned /\ result = None => Len(sleeps) = max_tries)
    /\ (returned /\ result # None => Len(sleeps) = Len(probes) - 1)
    /\ \A n \in 1..Len(sleeps) :
          sleeps[n] = IF n % 50 = 0
                      THEN (IF 10 * sleep_sec < 20 THEN 10 * sleep_sec ELSE 20)
                      ELSE sleep_sec

\* every try of the budget failed: the 50th failure slept 1 s, the others 0.1 s
C13_Witness ==
    /\ returned
    /\ result = None
    /\ sleep_sec = 1
    /\ Len(sleeps) = 51
    /\ sleeps[49] = 1
    /\ sleeps[50] = 10
    /\ sleeps[51] = 1

\* C14: the delay slept on every 50th failure is larger than the base delay.
C14_BackoffIsLarger ==
    \A n \in 1..Len(sleeps) : n % 50 = 0 => sleeps[n] > sleep_sec

-----------------------------------------------------------------------------
(* Further properties of the downloader *)

SavedName == FileName(save_calls[1], CHOOSE now \in Clock : TRUE)

C15_State ==
    (pc = "done" /\ save_gets = 1 /\ Last(printed) = "saved") =>
        /\ last_get.kind = "resp"
        /\ SavedName \in DOMAIN files
        /\ files[SavedName] = last_get.resp.content
        /\ (confirmed.content # last_get.resp.content =>
               files[SavedName] # confirmed.content)

C15_Step ==
    pc = "save" =>
        \/ files' = files /\ printed' = Append(printed, "error")
        \/ /\ last_get'.kind = "resp"
           /\ \E name \in DOMAIN files' :
                 /\ files'[name] = last_get'.resp.content
                 /\ \A other \in DOMAIN files' \ {name} :
                       other \in DOMAIN files /\ files'[other] = files[other]

\* C15: what save_image writes is the body of the response to its own GET;
\* when that response differs from the one the prober confirmed the URL with,
\* the file holds the body received at download time, or the download fails
\* and nothing is written.
C15_SavedBodyIsRefetched == []C15_State /\ [][C15_Step]_vars

\* the prober confirmed the URL with one image and the download got another
C15_Witness ==
    /\ pc = "done"
    /\ confirmed = GoodImage
    /\ last_get = CompletedGet(OtherImage)
    /\ files = [n \in {<<"b">>} |-> OtherImage.content]

-----------------------------------------------------------------------------
(* Searches of two tries, on the timestamps -1 and 42, over many templates *)

InitTemplates ==
    /\ base_url \in TemplateUniverse
    /\ start_ts = 0 - 1
    /\ step = 43
    /\ max_tries = 2
    /\ sleep_sec = 1
    /\ i = 0
    /\ ts = 0
    /\ test_url = <<>>
    /\ consecutive_failures = 0
    /\ ok = FALSE
    /\ pc = "loop"
    /\ head_first = TRUE
    /\ head = "none"
    /\ result = None
    /\ returned = FALSE
    /\ files = NoFiles
    /\ dir_made = FALSE
    /\ printed = <<>>
    /\ probes = <<>>
    /\ probe_reqs = <<>>
    /\ n_head = 0
    /\ n_get = 0
    /\ sleeps = <<>>
    /\ save_calls = <<>>
    /\ save_gets = 0
    /\ last_get = NoGet
    /\ confirmed = NoResponse
    /\ caller = "search"
    /\ IdleClassifier

SpecTemplates == InitTemplates /\ [][Next]_vars

-----------------------------------------------------------------------------
(* Properties of the templating *)

\* the positions at which the placeholder token starts in template t
Occurrences(t) ==
    {p \in 1..Len(t) :
        /\ p + 3 <= Len(t)
        /\ t[p] = "{" /\ t[p + 1] = "t" /\ t[p + 2] = "s" /\ t[p + 3] = "}"}

\* the decimal strings of the timestamps of these searches
DecimalOf(n) ==
    CASE n = 0 - 1 -> <<"-", "1">>
      [] n = 42 -> <<"4", "2">>

\* the URL stated for template t and timestamp n: the one occurrence of the
\* placeholder replaced, or t itself when it has none
StatedUrl(t, n) ==
    IF Occurrences(t) = {} THEN t
    ELSE LET p == CHOOSE q \in Occurrences(t) : TRUE
         IN  SubSeq(t, 1, p - 1) \o DecimalOf(n) \o SubSeq(t, p + 4, Len(t))

\* C16: with a template that holds the placeholder once, the URL of every
\* probe is the template with that occurrence replaced by the decimal string
\* of the probe's timestamp and nothing else changed; with a template that
\* does not hold it, no error is raised and every probe is made on the
\* template itself.
C16_Templating ==
    /\ pc # "crashed"
    /\ Cardinality(Occurrences(base_url)) <= 1
    /\ \A j \in 1..Len(probes) :
          /\ probes[j].url = StatedUrl(base_url, probes[j].ts)
          /\ (Occurrences(base_url) = {} => probes[j].url = base_url)
    /\ (pc \in {"head", "get_after_head", "get", "probed"} =>
          test_url = StatedUrl(base_url, ts))

\* two probes on "a{ts}}": "a-1}" and "a42}"
C16_Witness ==
    /\ base_url = <<"a", "{", "t", "s", "}", "}">>
    /\ Len(probes) = 2
    /\ probes[1].url = <<"a", "-", "1", "}">>
    /\ probes[2].url = <<"a", "4", "2", "}">>

-----------------------------------------------------------------------------
(* Calls of try_fetch_image: those of the search loop of a run, and calls of
   the function on its own with either value of head_first *)

InitProbe ==
    /\ base_url \in Templates
    /\ start_ts = 42
    /\ step = 0
    /\ max_tries = 0
    /\ sleep_sec = 0
    /\ i = 0
    /\ ts = 42
    /\ test_url = replace_timestamp_in_url(base_url, 42)
    /\ consecutive_failures = 0
    /\ ok = FALSE
    /\ head_first \in BOOLEAN
    /\ pc = IF head_first THEN "head" ELSE "get"
    /\ head = "none"
    /\ result = None
    /\ returned = FALSE
    /\ files = NoFiles
    /\ dir_made = FALSE
    /\ printed = <<>>
    /\ probes = <<>>
    /\ probe_reqs = <<>>
    /\ n_head = 0
    /\ n_get = 0
    /\ sleeps = <<>>
    /\ save_calls = <<>>
    /\ save_gets = 0
    /\ last_get = NoGet
    /\ confirmed = NoResponse
    /\ caller = "direct"
    /\ IdleClassifier

InitCalls == Init \/ InitProbe

SpecCalls == InitCalls /\ [][Next]_vars

-----------------------------------------------------------------------------
(* Properties of the requests of a probe *)

HeadsOfProbe == Cardinality({k \in 1..Len(probe_reqs) : probe_reqs[k] = "HEAD"})

\* the responses of ServerResponses that are usable images for the code
AcceptedServerResponses == {GoodImage, OtherImage, BadLengthImage}

\* C17: try_fetch_image returns after a GET, and what it returns is decided by
\* the last GET it issued: true exactly when that GET completed with a
\* response is_image_response accepts, false when it failed at network level
\* or was rejected, whatever the HEAD came to.
C17_ReturnIsLastGet ==
    pc = "probed" =>
        /\ probe_reqs # <<>>
        /\ Last(probe_reqs) = "GET"
        /\ last_get.kind \in {"exc", "resp"}
        /\ (ok <=> (last_get.kind = "resp"
                     /\ last_get.resp \in AcceptedServerResponses))

\* the GET after an ok HEAD failed and the GET of step 2 was an image
C17_Witness ==
    /\ pc = "probed"
    /\ probe_reqs = <<"HEAD", "GET", "GET">>
    /\ last_get = CompletedGet(GoodImage)
    /\ ok

C18_State ==
    /\ HeadsOfProbe <= 1
    /\ GetsOfProbe <= 2
    /\ (pc = "probed" => GetsOfProbe >= 1)
    /\ (~head_first =>
          /\ HeadsOfProbe = 0
          /\ GetsOfProbe <= 1
          /\ (pc = "probed" => probe_reqs = <<"GET">>))
    /\ (caller = "search" => n_head + n_get <= 3 * max_tries)

C18_Step ==
    /\ n_head' + n_get' + save_gets' >= n_head + n_get + save_gets
    /\ n_head' + n_get' + save_gets' <= n_head + n_get + save_gets + 1

\* C18: a call of try_fetch_image issues at most one HEAD and one or two
\* GETs, and with head_first false one GET and no HEAD; a search issues at
\* most 3 * max_tries probe requests; requests are issued one at a time.
C18_RequestsOfProbe == []C18_State /\ [][C18_Step]_vars

\* a search of three tries that issued nine requests
C18_Witness ==
    /\ caller = "search"
    /\ returned
    /\ max_tries = 3
    /\ n_head = 3
    /\ n_get = 6

====
